---- MODULE Spec2Model ----
(***************************************************************************)
(* The obake launcher: configuration resolution (config.rs), the setup     *)
(* descriptor (setup.rs) and the setup START / STOP sequences (main.rs).   *)
(*                                                                         *)
(* Optional values (Rust Option<T>) are sets with at most one element:     *)
(* {} is None, {x} is Some(x).  A Result is a record with an ok flag.      *)
(* The file system, the environment and the service manager are outside    *)
(* the program: a run draws what each external call returns at the moment  *)
(* of the call.                                                            *)
(***************************************************************************)
EXTENDS Naturals, Sequences, FiniteSets

VARIABLES
    cmd,        \* the subcommand main dispatched: "none", "setup_start", "setup_stop"
    pc,         \* position of the run inside its handler
    config,     \* the `config` binding of the handler: {} before Config::load returned Ok
    setup,      \* the `setup_config` binding: {} before SetupConfig::load_from_path returned Ok
    idx,        \* number of entries of setup.shapes the for loop has consumed
    trace,      \* external calls and shape steps of the current run, in program order
    result,     \* "none" while the handler runs, then "ok" or the error it returned
    runs,       \* number of invocations started so far
    prev,       \* command, result and exit status of the previous invocation
    pending,    \* external calls the handler has issued that have not returned yet
    override,   \* SpecLoad: std::env::var("OBAKE_CONFIG_FILE") as the call under study sees it
    files,      \* SpecLoad: content of each candidate path as the call under study sees it
    loaded      \* SpecLoad: {} before the call, then {what Config::load returned}

vars == <<cmd, pc, config, setup, idx, trace, result, runs, prev, pending, override, files, loaded>>

runVars == <<cmd, pc, config, setup, idx, trace, result, runs, prev, pending>>
loadVars == <<override, files, loaded>>

(***************************************************************************)
(* Bounds.                                                                 *)
(***************************************************************************)
MaxShapes == 3          \* longest setup.shapes list drawn
MaxRuns == 2            \* invocations in a row

ShapeNames == {"a", "b"}
InterfaceNames == {"mixpre"}             \* keys a configuration file may define
InterfaceRefs == {"mixpre", "usb"}       \* names a setup file may reference
UnitNames == {"jack@mixpre.service"}

RECURSIVE SeqsUpTo(_, _)
SeqsUpTo(S, n) ==
    IF n = 0 THEN {<<>>}
    ELSE LET shorter == SeqsUpTo(S, n - 1)
         IN  shorter \cup {Append(s, x) : s \in shorter, x \in S}

PartialMaps(K, V) == UNION {[D -> V] : D \in SUBSET K}

(***************************************************************************)
(* config.rs: the schema and Config::load.                                 *)
(***************************************************************************)
\* A file is absent, is not TOML, or is a TOML document; a document may lack
\* any table or key of the schema.
NoFile == [kind |-> "nofile"]
Garbage == [kind |-> "garbage"]

\* [audio.interfaces.<name>] as written in a file: `type` and `unit` keys, each optional
InterfaceTables == [type : {{}, {"jack"}}, unit : {{}} \cup {{u} : u \in UnitNames}]

AudioTables ==
    [default_interface : InterfaceNames, interfaces : PartialMaps(InterfaceNames, InterfaceTables)]

DataTables == {[images_dir |-> "/shapes", setups_dir |-> "/setups", data_dir |-> "/data"]}

ConfigDocs ==
    [kind : {"doc"},
     audio : {{}} \cup {{a} : a \in AudioTables},
     data : {{}} \cup {{d} : d \in DataTables}]

ConfigFiles == {NoFile, Garbage} \cup ConfigDocs

\* Mutation of AudioInterfaceOf: an interface written without a unit gets a
\* default unit.
AudioInterfaceOfDefaultUnit(t) ==
    [interface_type |-> CHOOSE x \in t.type : TRUE,
     unit |-> IF t.unit = {} THEN {"jack@mixpre.service"} ELSE t.unit]

\* struct AudioInterface: interface_type is required, unit is Option<String>
AudioInterfaceOf(t) ==
    [interface_type |-> CHOOSE x \in t.type : TRUE, unit |-> t.unit]

\* serde's derived Deserialize for Config: every non-Option field must be present
ConfigDeserializable(doc) ==
    /\ doc.kind = "doc"
    /\ doc.audio # {}
    /\ doc.data # {}
    /\ \A a \in doc.audio : \A n \in DOMAIN a.interfaces : a.interfaces[n].type # {}

ConfigOf(doc) ==
    LET a == CHOOSE x \in doc.audio : TRUE
        d == CHOOSE x \in doc.data : TRUE
    IN  [audio |-> [default_interface |-> a.default_interface,
                    interfaces |-> [n \in DOMAIN a.interfaces |->
                                        AudioInterfaceOf(a.interfaces[n])]],
         data |-> d]

Ok(v) == [ok |-> TRUE, value |-> {v}, error |-> "none"]
Err(e) == [ok |-> FALSE, value |-> {}, error |-> e]

\* Mutation of ConfigLoadFromPath: a file that is not there yields a
\* configuration made of defaults.
ConfigLoadFromPathDefaulting(file) ==
    IF file.kind = "garbage" THEN Err("parse")
    ELSE IF file.kind = "nofile"
    THEN Ok([audio |-> [default_interface |-> "mixpre", interfaces |-> [n \in {} |-> {}]],
             data |-> [images_dir |-> "", setups_dir |-> "", data_dir |-> ""]])
    ELSE IF ConfigDeserializable(file) THEN Ok(ConfigOf(file))
    ELSE Err("missing_field")

\* Config::load_from_path: Figment::new().merge(Toml::file(path)).extract()?
\* A file that is not there contributes no values, so extract fails on the
\* first required field; a file that is not TOML fails in the provider.
ConfigLoadFromPath(file) ==
    IF file.kind = "garbage" THEN Err("parse")
    ELSE IF file.kind = "nofile" THEN Err("missing_field")
    ELSE IF ConfigDeserializable(file) THEN Ok(ConfigOf(file))
    ELSE Err("missing_field")

\* Path::new(path).exists()
PathExists(file) == file.kind # "nofile"

CustomPath == "custom"      \* the path OBAKE_CONFIG_FILE names
UserPath == "user"          \* $HOME/.config/obake/config.toml
SystemPath == "system"      \* /etc/obake/config.toml
Paths == {CustomPath, UserPath, SystemPath}

\* std::env::var: Err(NotPresent), Err(NotUnicode) or Ok(value)
Overrides ==
    {[var |-> "not_present", path |-> {}],
     [var |-> "not_unicode", path |-> {}],
     [var |-> "ok", path |-> {CustomPath}]}

FileSystems == [Paths -> ConfigFiles]

\* Mutation of search_paths: the system-wide path is listed first.
search_paths_system_first == <<SystemPath, UserPath>>

search_paths == <<UserPath, SystemPath>>

\* Mutation of SearchedIn: the message names only the last path probed.
SearchedInLastOnly == <<SystemPath>>

\* search_paths.join(", "): the paths the "No configuration file found.
\* Searched in: .." message lists
SearchedIn == search_paths

\* The for loop over search_paths: the paths probed with exists(), and the
\* first one that exists, if any.
RECURSIVE Search(_, _, _)
Search(fs, i, probed) ==
    IF i > Len(search_paths) THEN [probed |-> probed, found |-> {}]
    ELSE IF PathExists(fs[search_paths[i]])
         THEN [probed |-> Append(probed, search_paths[i]), found |-> {search_paths[i]}]
         ELSE Search(fs, i + 1, Append(probed, search_paths[i]))

\* What Config::load returns, with the paths it probed, the path it read and
\* the paths its error message lists.
WithAccess(r, probed, read) ==
    [ok |-> r.ok, value |-> r.value, error |-> r.error, probed |-> probed, read |-> read,
     listed |-> IF r.error = "not_found" THEN SearchedIn ELSE <<>>]

\* Mutation of ConfigLoad: a file that fails to load is skipped and the next
\* search path is tried.
ConfigLoadFallingBack(ov, fs) ==
    IF ov.var = "ok"
    THEN LET p == CHOOSE x \in ov.path : TRUE
         IN  WithAccess(ConfigLoadFromPath(fs[p]), <<>>, <<p>>)
    ELSE LET existing == SelectSeq(search_paths, LAMBDA p : PathExists(fs[p]))
             good == SelectSeq(existing, LAMBDA p : ConfigLoadFromPath(fs[p]).ok)
         IN  IF good # <<>>
             THEN WithAccess(ConfigLoadFromPath(fs[good[1]]), search_paths,
                             IF good[1] = existing[1] THEN <<good[1]>> ELSE existing)
             ELSE IF existing # <<>>
                  THEN WithAccess(ConfigLoadFromPath(fs[existing[1]]), search_paths, existing)
                  ELSE WithAccess(Err("not_found"), search_paths, <<>>)

ConfigLoad(ov, fs) ==
    IF ov.var = "ok"
    THEN LET p == CHOOSE x \in ov.path : TRUE
         IN  WithAccess(ConfigLoadFromPath(fs[p]), <<>>, <<p>>)
    ELSE LET s == Search(fs, 1, <<>>)
         IN  IF s.found # {}
             THEN LET p == CHOOSE x \in s.found : TRUE
                  IN  WithAccess(ConfigLoadFromPath(fs[p]), s.probed, <<p>>)
             ELSE WithAccess(Err("not_found"), s.probed, <<>>)

\* Config::get_audio_interface
get_audio_interface(c, name) ==
    IF name \in DOMAIN c.audio.interfaces THEN {c.audio.interfaces[name]} ELSE {}

\* Config::get_default_audio_interface
get_default_audio_interface(c) ==
    IF c.audio.default_interface \in DOMAIN c.audio.interfaces
    THEN {c.audio.interfaces[c.audio.default_interface]}
    ELSE {}

\* Config::list_audio_interfaces
list_audio_interfaces(c) == DOMAIN c.audio.interfaces

\* Config::get_images_dir
get_images_dir(c) == c.data.images_dir

\* Config::get_data_dir
get_data_dir(c) == c.data.data_dir

\* Config::get_setups_dir
get_setups_dir(c) == c.data.setups_dir

\* Every Result<Config> a call of Config::load can return, over every
\* environment and file system the call may find.
ConfigLoadOutcomes ==
    {LET r == ConfigLoad(ov, fs) IN [ok |-> r.ok, value |-> r.value, error |-> r.error] :
        ov \in Overrides, fs \in FileSystems}

(***************************************************************************)
(* setup.rs: the schema and SetupConfig::load_from_path.                   *)
(***************************************************************************)
\* [shapes.<name>] as written in a file: `image` and `env` are both optional
ShapeTables == [image : {{}, {"img"}}, env : {{}, {"vars"}}]

SetupTables == [interface : InterfaceRefs, shapes : SeqsUpTo(ShapeNames, MaxShapes)]

SetupDocs ==
    [kind : {"doc"},
     setup : {{}} \cup {{s} : s \in SetupTables},
     shapes : {{}} \cup {{m} : m \in PartialMaps(ShapeNames, ShapeTables)}]

SetupFiles == {NoFile, Garbage} \cup SetupDocs

\* serde's derived Deserialize for SetupConfig: `setup` and `shapes` are required
SetupDeserializable(doc) ==
    /\ doc.kind = "doc"
    /\ doc.setup # {}
    /\ doc.shapes # {}

SetupConfigOf(doc) ==
    [setup |-> CHOOSE x \in doc.setup : TRUE, shapes |-> CHOOSE x \in doc.shapes : TRUE]

\* SetupConfig::load_from_path
SetupConfigLoadFromPath(file) ==
    IF file.kind = "garbage" THEN Err("parse")
    ELSE IF file.kind = "nofile" THEN Err("missing_field")
    ELSE IF SetupDeserializable(file) THEN Ok(SetupConfigOf(file))
    ELSE Err("missing_field")

\* SetupConfig::get_shape
get_shape(sc, name) == IF name \in DOMAIN sc.shapes THEN {sc.shapes[name]} ELSE {}

(***************************************************************************)
(* main.rs: one invocation.                                                *)
(***************************************************************************)
Event(op, arg, res) == [op |-> op, arg |-> arg, res |-> res]

NoRun == [cmd |-> "none", result |-> "none", exit |-> 0]

TheConfig == CHOOSE c \in config : TRUE
TheSetup == CHOOSE s \in setup : TRUE

\* The external call each position of a handler makes: file reads block the
\* thread, calls to the service manager are awaited.
CallPositions ==
    {"start_load_config", "start_read_dir", "start_load_setup", "start_reload_config",
     "start_get_manager", "start_unit",
     "stop_load_setup", "stop_shapes", "stop_get_manager", "stop_unit"}

CallAt(p) ==
    CASE p \in {"start_load_config", "start_reload_config", "stop_shapes"} -> "config_load"
      [] p = "start_read_dir" -> "read_dir"
      [] p \in {"start_load_setup", "stop_load_setup"} -> "setup_load"
      [] p \in {"start_get_manager", "stop_get_manager"} -> "connect"
      [] p = "start_unit" -> "start_unit"
      [] p = "stop_unit" -> "stop_unit"

\* the handler is at a call: the stop loop has to be exhausted before
\* setup_stop loads the configuration
AtCall ==
    /\ pc \in CallPositions
    /\ pc = "stop_shapes" => idx = Len((CHOOSE x \in setup : TRUE).setup.shapes)

\* Mutation of IssueCall: the call is started without waiting for the one
\* before it.
IssueCallDetached ==
    /\ AtCall
    /\ pending' = Append(pending, CallAt(pc))
    /\ UNCHANGED <<cmd, pc, config, setup, idx, trace, result, runs, prev, loadVars>>

\* the handler makes the external call of its position; it makes no call
\* while another one is outstanding
IssueCall ==
    /\ AtCall
    /\ pending = <<>>
    /\ pending' = Append(pending, CallAt(pc))
    /\ UNCHANGED <<cmd, pc, config, setup, idx, trace, result, runs, prev, loadVars>>

\* the outstanding call returns to the handler
Returned(op) ==
    /\ pending = <<op>>
    /\ pending' = <<>>

\* the `?` operator and `return Err(..)`: the handler returns the error
Fail(e) ==
    /\ pc' = "returned"
    /\ result' = e

RunInit ==
    /\ cmd = "none"
    /\ pc = "idle"
    /\ config = {}
    /\ setup = {}
    /\ idx = 0
    /\ trace = <<>>
    /\ result = "none"
    /\ runs = 0
    /\ prev = NoRun
    /\ pending = <<>>

\* main: `match &args.command`, the two setup subcommands
Dispatch(c, first) ==
    /\ pc = "idle"
    /\ runs < MaxRuns
    /\ cmd' = c
    /\ pc' = first
    /\ config' = {}
    /\ setup' = {}
    /\ idx' = 0
    /\ trace' = <<>>
    /\ result' = "none"
    /\ runs' = runs + 1
    /\ UNCHANGED <<prev, pending, loadVars>>

MainSetupStart == Dispatch("setup_start", "start_load_config")

MainSetupStop == Dispatch("setup_stop", "stop_load_setup")

\* Mutation of MainExit: the error is printed but the process ends with
\* status zero.
MainExitAlwaysZero ==
    /\ pc = "returned"
    /\ prev' = [cmd |-> cmd, result |-> result, exit |-> 0]
    /\ pc' = "idle"
    /\ cmd' = "none"
    /\ config' = {}
    /\ setup' = {}
    /\ idx' = 0
    /\ trace' = <<>>
    /\ result' = "none"
    /\ UNCHANGED <<runs, pending, loadVars>>

\* main: `if let Err(e) = result { exit(1) }`, else the process returns Ok;
\* the process ends and nothing of the run outlives it but its exit status
MainExit ==
    /\ pc = "returned"
    /\ prev' = [cmd |-> cmd, result |-> result, exit |-> IF result = "ok" THEN 0 ELSE 1]
    /\ pc' = "idle"
    /\ cmd' = "none"
    /\ config' = {}
    /\ setup' = {}
    /\ idx' = 0
    /\ trace' = <<>>
    /\ result' = "none"
    /\ UNCHANGED <<runs, pending, loadVars>>

(***************************************************************************)
(* main.rs: setup_start.                                                   *)
(***************************************************************************)
\* let config = config::Config::load()?;
SetupStartLoadConfig ==
    /\ pc = "start_load_config"
    /\ Returned("config_load")
    /\ \E r \in ConfigLoadOutcomes :
        /\ trace' = Append(trace, Event("config_load", "config.toml", IF r.ok THEN "ok" ELSE "err"))
        /\ IF r.ok
           THEN /\ config' = r.value
                /\ pc' = "start_read_dir"
                /\ UNCHANGED result
           ELSE /\ Fail("config_error")
                /\ UNCHANGED config
    /\ UNCHANGED <<cmd, setup, idx, runs, prev, loadVars>>

\* Mutation of SetupStartReadDir: a setups directory that cannot be read is
\* only logged.
SetupStartReadDirLenient ==
    /\ pc = "start_read_dir"
    /\ Returned("read_dir")
    /\ \E ok \in BOOLEAN :
        trace' = Append(trace, Event("read_dir", get_setups_dir(TheConfig), IF ok THEN "ok" ELSE "err"))
    /\ pc' = "start_load_setup"
    /\ UNCHANGED <<cmd, config, setup, idx, result, runs, prev, loadVars>>

\* let setup_files = std::fs::read_dir(setups_dir)?; and the listing loop
SetupStartReadDir ==
    /\ pc = "start_read_dir"
    /\ Returned("read_dir")
    /\ \E ok \in BOOLEAN :
        /\ trace' = Append(trace, Event("read_dir", get_setups_dir(TheConfig), IF ok THEN "ok" ELSE "err"))
        /\ IF ok
           THEN /\ pc' = "start_load_setup"
                /\ UNCHANGED result
           ELSE Fail("read_dir_error")
    /\ UNCHANGED <<cmd, config, setup, idx, runs, prev, loadVars>>

\* let setup_config = setup::SetupConfig::load_from_path("setup.toml")?;
SetupStartLoadSetup ==
    /\ pc = "start_load_setup"
    /\ Returned("setup_load")
    /\ \E f \in SetupFiles :
        LET r == SetupConfigLoadFromPath(f)
        IN  /\ trace' = Append(trace, Event("setup_load", "setup.toml", IF r.ok THEN "ok" ELSE "err"))
            /\ IF r.ok
               THEN /\ setup' = r.value
                    /\ pc' = "start_reload_config"
                    /\ UNCHANGED result
               ELSE /\ Fail("setup_error")
                    /\ UNCHANGED setup
    /\ UNCHANGED <<cmd, config, idx, runs, prev, loadVars>>

\* Mutation of SetupStartReloadConfig: when the second load fails the run
\* goes on with the configuration of the first load.
SetupStartReloadConfigLenient ==
    /\ pc = "start_reload_config"
    /\ Returned("config_load")
    /\ \E r \in ConfigLoadOutcomes :
        /\ trace' = Append(trace, Event("config_load", "config.toml", IF r.ok THEN "ok" ELSE "err"))
        /\ config' = IF r.ok THEN r.value ELSE config
    /\ pc' = "start_interface"
    /\ UNCHANGED <<cmd, setup, idx, result, runs, prev, loadVars>>

\* let config = config::Config::load()?;  (second load, shadows the first)
SetupStartReloadConfig ==
    /\ pc = "start_reload_config"
    /\ Returned("config_load")
    /\ \E r \in ConfigLoadOutcomes :
        /\ trace' = Append(trace, Event("config_load", "config.toml", IF r.ok THEN "ok" ELSE "err"))
        /\ IF r.ok
           THEN /\ config' = r.value
                /\ pc' = "start_interface"
                /\ UNCHANGED result
           ELSE /\ Fail("config_error")
                /\ UNCHANGED config
    /\ UNCHANGED <<cmd, setup, idx, runs, prev, loadVars>>

\* Mutation of SetupStartInterface: a missing interface is only logged, as
\* setup_stop does, and the run goes on to the shapes.
SetupStartInterfaceLenient ==
    /\ pc = "start_interface"
    /\ LET interface == get_audio_interface(TheConfig, TheSetup.setup.interface)
       IN  pc' = IF interface # {} /\ (CHOOSE i \in interface : TRUE).unit # {}
                 THEN "start_get_manager"
                 ELSE "start_shapes"
    /\ UNCHANGED <<cmd, config, setup, idx, trace, result, runs, prev, pending, loadVars>>

\* Mutation of SetupStartInterface: the shape loop is entered without
\* starting the unit of the interface.
SetupStartInterfaceSkipsUnit ==
    /\ pc = "start_interface"
    /\ LET interface == get_audio_interface(TheConfig, TheSetup.setup.interface)
       IN  IF interface = {}
           THEN Fail("interface_not_found")
           ELSE /\ pc' = "start_shapes"
                /\ UNCHANGED result
    /\ UNCHANGED <<cmd, config, setup, idx, trace, runs, prev, pending, loadVars>>

\* Mutation of SetupStartInterface: an interface without a unit is an error.
SetupStartInterfaceUnitRequired ==
    /\ pc = "start_interface"
    /\ LET interface == get_audio_interface(TheConfig, TheSetup.setup.interface)
       IN  IF interface = {}
           THEN Fail("interface_not_found")
           ELSE IF (CHOOSE i \in interface : TRUE).unit = {}
           THEN Fail("unit_missing")
           ELSE /\ pc' = "start_get_manager"
                /\ UNCHANGED result
    /\ UNCHANGED <<cmd, config, setup, idx, trace, runs, prev, pending, loadVars>>

\* if let Some(interface) = config.get_audio_interface(interface_name) { .. } else { return Err }
SetupStartInterface ==
    /\ pc = "start_interface"
    /\ LET interface == get_audio_interface(TheConfig, TheSetup.setup.interface)
       IN  IF interface = {}
           THEN Fail("interface_not_found")
           ELSE /\ pc' = IF (CHOOSE i \in interface : TRUE).unit # {}
                         THEN "start_get_manager"
                         ELSE "start_shapes"
                /\ UNCHANGED result
    /\ UNCHANGED <<cmd, config, setup, idx, trace, runs, prev, pending, loadVars>>

\* the unit of the resolved interface (the `unit` binding inside `if let Some(unit)`)
InterfaceUnit ==
    LET interface == CHOOSE i \in get_audio_interface(TheConfig, TheSetup.setup.interface) : TRUE
    IN  CHOOSE u \in interface.unit : TRUE

\* Mutation of get_manager: after the session bus the system bus is
\* connected as well.
get_manager_both_buses(next) ==
    \E ok \in BOOLEAN :
        /\ trace' = trace \o <<Event("connect", "session", "ok"),
                               Event("connect", "system", IF ok THEN "ok" ELSE "err")>>
        /\ IF ok
           THEN /\ pc' = next
                /\ UNCHANGED result
           ELSE Fail("connection_failed")

\* Mutation of get_manager: a failed connection is not propagated.
get_manager_unchecked(next) ==
    \E ok \in BOOLEAN :
        /\ trace' = Append(trace, Event("connect", "session", IF ok THEN "ok" ELSE "err"))
        /\ pc' = next
        /\ UNCHANGED result

\* get_manager: Connection::session().await? ; ManagerProxy::new(&connection).await?
get_manager(next) ==
    \E ok \in BOOLEAN :
        /\ trace' = Append(trace, Event("connect", "session", IF ok THEN "ok" ELSE "err"))
        /\ IF ok
           THEN /\ pc' = next
                /\ UNCHANGED result
           ELSE Fail("connection_failed")

\* let manager = get_manager().await?;
SetupStartGetManager ==
    /\ pc = "start_get_manager"
    /\ Returned("connect")
    /\ get_manager("start_unit")
    /\ UNCHANGED <<cmd, config, setup, idx, runs, prev, loadVars>>

\* Mutation of SetupStartUnit: a failed start is only logged and the run goes
\* on to the shapes.
SetupStartUnitLenient ==
    /\ pc = "start_unit"
    /\ Returned("start_unit")
    /\ \E ok \in BOOLEAN :
        trace' = Append(trace, Event("start_unit", InterfaceUnit, IF ok THEN "ok" ELSE "err"))
    /\ pc' = "start_shapes"
    /\ UNCHANGED <<cmd, config, setup, idx, result, runs, prev, loadVars>>

\* Mutation of SetupStartUnit: a failed start is tried once more.
SetupStartUnitRetries ==
    /\ pc = "start_unit"
    /\ Returned("start_unit")
    /\ \E ok \in BOOLEAN :
        /\ trace' = Append(trace, Event("start_unit", InterfaceUnit, IF ok THEN "ok" ELSE "err"))
        /\ IF ok
           THEN /\ pc' = "start_shapes"
                /\ UNCHANGED result
           ELSE IF trace[Len(trace)].op = "start_unit"
           THEN Fail("unit_failed")
           ELSE UNCHANGED <<pc, result>>
    /\ UNCHANGED <<cmd, config, setup, idx, runs, prev, loadVars>>

\* manager.start_unit(unit, Mode::Replace).await?;
SetupStartUnit ==
    /\ pc = "start_unit"
    /\ Returned("start_unit")
    /\ \E ok \in BOOLEAN :
        /\ trace' = Append(trace, Event("start_unit", InterfaceUnit, IF ok THEN "ok" ELSE "err"))
        /\ IF ok
           THEN /\ pc' = "start_shapes"
                /\ UNCHANGED result
           ELSE Fail("unit_failed")
    /\ UNCHANGED <<cmd, config, setup, idx, runs, prev, loadVars>>

\* what one iteration of a shape loop finds for shape_name
ShapeOutcome(sc, name) ==
    LET shape == get_shape(sc, name)
    IN  IF shape = {} THEN "not_found"
        ELSE IF (CHOOSE x \in shape : TRUE).image # {} THEN "image"
        ELSE "no_image"

\* `if let Some(env) = &shape.env` of the start loop
ShapeEnvLogged(sc, name) ==
    LET shape == get_shape(sc, name)
    IN  shape # {} /\ (CHOOSE x \in shape : TRUE).env # {}

\* Mutation of SetupStartShape: an entry that is not in the shape map is
\* looked up a second time before the loop moves on.
SetupStartShapeRepeatsMissing ==
    /\ pc = "start_shapes"
    /\ idx < Len(TheSetup.setup.shapes)
    /\ LET name == TheSetup.setup.shapes[idx + 1]
           step == Event("shape_start", name, ShapeOutcome(TheSetup, name))
       IN  /\ trace' = IF ShapeEnvLogged(TheSetup, name)
                       THEN trace \o <<step, Event("shape_env", name, "logged")>>
                       ELSE Append(trace, step)
           /\ idx' = IF get_shape(TheSetup, name) = {} /\ trace[Len(trace)] # step
                     THEN idx
                     ELSE idx + 1
    /\ UNCHANGED <<cmd, pc, config, setup, result, runs, prev, pending, loadVars>>

\* Mutation of SetupStartShape: a shape that names no image ends the run
\* with an error.
SetupStartShapeNeedsImage ==
    /\ pc = "start_shapes"
    /\ idx < Len(TheSetup.setup.shapes)
    /\ LET name == TheSetup.setup.shapes[idx + 1]
           step == Event("shape_start", name, ShapeOutcome(TheSetup, name))
       IN  /\ trace' = IF ShapeEnvLogged(TheSetup, name)
                       THEN trace \o <<step, Event("shape_env", name, "logged")>>
                       ELSE Append(trace, step)
           /\ IF ShapeOutcome(TheSetup, name) = "no_image"
              THEN Fail("shape_without_image")
              ELSE UNCHANGED <<pc, result>>
    /\ idx' = idx + 1
    /\ UNCHANGED <<cmd, config, setup, runs, prev, pending, loadVars>>

\* Mutation of SetupStartShape: a shape missing from the shape map ends the
\* run with an error.
SetupStartShapeStrict ==
    /\ pc = "start_shapes"
    /\ idx < Len(TheSetup.setup.shapes)
    /\ LET name == TheSetup.setup.shapes[idx + 1]
           step == Event("shape_start", name, ShapeOutcome(TheSetup, name))
       IN  /\ trace' = IF ShapeEnvLogged(TheSetup, name)
                       THEN trace \o <<step, Event("shape_env", name, "logged")>>
                       ELSE Append(trace, step)
           /\ IF get_shape(TheSetup, name) = {}
              THEN Fail("shape_not_found")
              ELSE UNCHANGED <<pc, result>>
    /\ idx' = idx + 1
    /\ UNCHANGED <<cmd, config, setup, runs, prev, pending, loadVars>>

\* for shape_name in &setup_config.setup.shapes { .. }: one iteration
SetupStartShape ==
    /\ pc = "start_shapes"
    /\ idx < Len(TheSetup.setup.shapes)
    /\ LET name == TheSetup.setup.shapes[idx + 1]
           step == Event("shape_start", name, ShapeOutcome(TheSetup, name))
       IN  trace' = IF ShapeEnvLogged(TheSetup, name)
                    THEN trace \o <<step, Event("shape_env", name, "logged")>>
                    ELSE Append(trace, step)
    /\ idx' = idx + 1
    /\ UNCHANGED <<cmd, pc, config, setup, result, runs, prev, pending, loadVars>>

\* the loop is exhausted: info!("Setup started successfully"); Ok(())
SetupStartOk ==
    /\ pc = "start_shapes"
    /\ idx = Len(TheSetup.setup.shapes)
    /\ pc' = "returned"
    /\ result' = "ok"
    /\ UNCHANGED <<cmd, config, setup, idx, trace, runs, prev, pending, loadVars>>

(***************************************************************************)
(* main.rs: setup_stop.                                                    *)
(***************************************************************************)
\* let setup_config = setup::SetupConfig::load_from_path("setup.toml")?;
SetupStopLoadSetup ==
    /\ pc = "stop_load_setup"
    /\ Returned("setup_load")
    /\ \E f \in SetupFiles :
        LET r == SetupConfigLoadFromPath(f)
        IN  /\ trace' = Append(trace, Event("setup_load", "setup.toml", IF r.ok THEN "ok" ELSE "err"))
            /\ IF r.ok
               THEN /\ setup' = r.value
                    /\ pc' = "stop_shapes"
                    /\ UNCHANGED result
               ELSE /\ Fail("setup_error")
                    /\ UNCHANGED setup
    /\ UNCHANGED <<cmd, config, idx, runs, prev, loadVars>>

\* Mutation of SetupStopShape: the loop runs over setup.shapes without rev().
SetupStopShapeForward ==
    /\ pc = "stop_shapes"
    /\ idx < Len(TheSetup.setup.shapes)
    /\ LET name == TheSetup.setup.shapes[idx + 1]
       IN  trace' = Append(trace, Event("shape_stop", name, ShapeOutcome(TheSetup, name)))
    /\ idx' = idx + 1
    /\ UNCHANGED <<cmd, pc, config, setup, result, runs, prev, pending, loadVars>>

\* for shape_name in setup_config.setup.shapes.iter().rev() { .. }: one iteration
SetupStopShape ==
    /\ pc = "stop_shapes"
    /\ idx < Len(TheSetup.setup.shapes)
    /\ LET name == TheSetup.setup.shapes[Len(TheSetup.setup.shapes) - idx]
       IN  trace' = Append(trace, Event("shape_stop", name, ShapeOutcome(TheSetup, name)))
    /\ idx' = idx + 1
    /\ UNCHANGED <<cmd, pc, config, setup, result, runs, prev, pending, loadVars>>

\* the loop is exhausted: let config = config::Config::load()?;
SetupStopLoadConfig ==
    /\ pc = "stop_shapes"
    /\ Returned("config_load")
    /\ idx = Len(TheSetup.setup.shapes)
    /\ \E r \in ConfigLoadOutcomes :
        /\ trace' = Append(trace, Event("config_load", "config.toml", IF r.ok THEN "ok" ELSE "err"))
        /\ IF r.ok
           THEN /\ config' = r.value
                /\ pc' = "stop_interface"
                /\ UNCHANGED result
           ELSE /\ Fail("config_error")
                /\ UNCHANGED config
    /\ UNCHANGED <<cmd, setup, idx, runs, prev, loadVars>>

\* Mutation of SetupStopInterface: a missing interface is an error, as in
\* setup_start.
SetupStopInterfaceStrict ==
    /\ pc = "stop_interface"
    /\ LET interface == get_audio_interface(TheConfig, TheSetup.setup.interface)
       IN  IF interface = {}
           THEN Fail("interface_not_found")
           ELSE IF (CHOOSE i \in interface : TRUE).unit # {}
           THEN /\ pc' = "stop_get_manager"
                /\ UNCHANGED result
           ELSE /\ pc' = "returned"
                /\ result' = "ok"
    /\ UNCHANGED <<cmd, config, setup, idx, trace, runs, prev, pending, loadVars>>

\* Mutation of SetupStopInterface: the launcher remembers that the previous
\* invocation stopped the setup and does not stop the unit again.
SetupStopInterfaceRemembers ==
    /\ pc = "stop_interface"
    /\ LET interface == get_audio_interface(TheConfig, TheSetup.setup.interface)
       IN  IF /\ interface # {}
              /\ (CHOOSE i \in interface : TRUE).unit # {}
              /\ ~(prev.cmd = "setup_stop" /\ prev.result = "ok")
           THEN /\ pc' = "stop_get_manager"
                /\ UNCHANGED result
           ELSE /\ pc' = "returned"
                /\ result' = "ok"
    /\ UNCHANGED <<cmd, config, setup, idx, trace, runs, prev, pending, loadVars>>

\* if let Some(interface) = config.get_audio_interface(interface_name) { if let Some(unit) .. }
\* both else branches only log and fall through to Ok(())
SetupStopInterface ==
    /\ pc = "stop_interface"
    /\ LET interface == get_audio_interface(TheConfig, TheSetup.setup.interface)
       IN  IF interface # {} /\ (CHOOSE i \in interface : TRUE).unit # {}
           THEN /\ pc' = "stop_get_manager"
                /\ UNCHANGED result
           ELSE /\ pc' = "returned"
                /\ result' = "ok"
    /\ UNCHANGED <<cmd, config, setup, idx, trace, runs, prev, pending, loadVars>>

\* let manager = get_manager().await?;
SetupStopGetManager ==
    /\ pc = "stop_get_manager"
    /\ Returned("connect")
    /\ get_manager("stop_unit")
    /\ UNCHANGED <<cmd, config, setup, idx, runs, prev, loadVars>>

\* Mutation of SetupStopUnit: a failed stop is only logged and the run ends
\* with success.
SetupStopUnitLenient ==
    /\ pc = "stop_unit"
    /\ Returned("stop_unit")
    /\ \E ok \in BOOLEAN :
        trace' = Append(trace, Event("stop_unit", InterfaceUnit, IF ok THEN "ok" ELSE "err"))
    /\ pc' = "returned"
    /\ result' = "ok"
    /\ UNCHANGED <<cmd, config, setup, idx, runs, prev, loadVars>>

\* manager.stop_unit(unit, Mode::Replace).await?; then Ok(())
SetupStopUnit ==
    /\ pc = "stop_unit"
    /\ Returned("stop_unit")
    /\ \E ok \in BOOLEAN :
        /\ trace' = Append(trace, Event("stop_unit", InterfaceUnit, IF ok THEN "ok" ELSE "err"))
        /\ IF ok
           THEN /\ pc' = "returned"
                /\ result' = "ok"
           ELSE Fail("unit_failed")
    /\ UNCHANGED <<cmd, config, setup, idx, runs, prev, loadVars>>

(***************************************************************************)
(* The orchestration runs.                                                 *)
(***************************************************************************)
Init ==
    /\ RunInit
    /\ override = [var |-> "not_present", path |-> {}]
    /\ files = [p \in Paths |-> NoFile]
    /\ loaded = {}

Next ==
    \/ MainSetupStart
    \/ IssueCall
    \/ SetupStartLoadConfig
    \/ SetupStartReadDir
    \/ SetupStartLoadSetup
    \/ SetupStartReloadConfig
    \/ SetupStartInterface
    \/ SetupStartGetManager
    \/ SetupStartUnit
    \/ SetupStartShape
    \/ SetupStartOk
    \/ MainSetupStop
    \/ SetupStopLoadSetup
    \/ SetupStopShape
    \/ SetupStopLoadConfig
    \/ SetupStopInterface
    \/ SetupStopGetManager
    \/ SetupStopUnit
    \/ MainExit

Spec == Init /\ [][Next]_vars

\* The steps of a handler, from its first call to its return. The handler is
\* one task on the runtime main blocks on: whenever it can take its next
\* step it takes it, and a call that was issued returns.
HandlerStep ==
    \/ IssueCall
    \/ SetupStartLoadConfig
    \/ SetupStartReadDir
    \/ SetupStartLoadSetup
    \/ SetupStartReloadConfig
    \/ SetupStartInterface
    \/ SetupStartGetManager
    \/ SetupStartUnit
    \/ SetupStartShape
    \/ SetupStartOk
    \/ SetupStopLoadSetup
    \/ SetupStopShape
    \/ SetupStopLoadConfig
    \/ SetupStopInterface
    \/ SetupStopGetManager
    \/ SetupStopUnit

\* One invocation of the program, from main's dispatch to its exit, under
\* that scheduling.
InvocationNext ==
    \/ runs = 0 /\ MainSetupStart
    \/ runs = 0 /\ MainSetupStop
    \/ HandlerStep
    \/ MainExit

SpecLive == Init /\ [][InvocationNext]_vars /\ WF_vars(HandlerStep)

(***************************************************************************)
(* Config::load on its own: the environment and the three candidate files  *)
(* are drawn, then the call is made.                                       *)
(***************************************************************************)
LoadInit ==
    /\ RunInit
    /\ override \in Overrides
    /\ files \in FileSystems
    /\ loaded = {}

ConfigLoadCall ==
    /\ loaded = {}
    /\ loaded' = {ConfigLoad(override, files)}
    /\ UNCHANGED <<runVars, override, files>>

LoadNext == ConfigLoadCall

SpecLoad == LoadInit /\ [][LoadNext]_vars

(***************************************************************************)
(* load_from_path on its own, for either kind of file: the file is drawn,  *)
(* then the call is made.                                                  *)
(***************************************************************************)
ConfigPath == "config.toml"
SetupPath == "setup.toml"

FromPathInit ==
    /\ RunInit
    /\ override = [var |-> "not_present", path |-> {}]
    /\ files \in [{ConfigPath} -> ConfigFiles] \cup [{SetupPath} -> SetupFiles]
    /\ loaded = {}

ConfigLoadFromPathCall ==
    /\ loaded = {}
    /\ ConfigPath \in DOMAIN files
    /\ loaded' = {ConfigLoadFromPath(files[ConfigPath])}
    /\ UNCHANGED <<runVars, override, files>>

SetupLoadFromPathCall ==
    /\ loaded = {}
    /\ SetupPath \in DOMAIN files
    /\ loaded' = {SetupConfigLoadFromPath(files[SetupPath])}
    /\ UNCHANGED <<runVars, override, files>>

FromPathNext ==
    \/ ConfigLoadFromPathCall
    \/ SetupLoadFromPathCall

SpecLoadFromPath == FromPathInit /\ [][FromPathNext]_vars

(***************************************************************************)
(* Reading a run off its trace.                                            *)
(***************************************************************************)
IsShapeStep(e) == e.op \in {"shape_start", "shape_stop"}
IsManagerCall(e) == e.op \in {"connect", "start_unit", "stop_unit"}
IsUnitCall(e) == e.op \in {"start_unit", "stop_unit"}
IsLoad(e) == e.op \in {"config_load", "setup_load"}

RECURSIVE Reverse(_)
Reverse(s) == IF s = <<>> THEN <<>> ELSE Append(Reverse(Tail(s)), Head(s))

\* the shape names the run has processed so far, in the order it processed them
ShapesProcessed ==
    LET steps == SelectSeq(trace, IsShapeStep)
    IN  [i \in 1..Len(steps) |-> steps[i].arg]

ManagerCalls == SelectSeq(trace, IsManagerCall)
UnitCalls == SelectSeq(trace, IsUnitCall)

ManagerFailed == \E i \in 1..Len(trace) : IsManagerCall(trace[i]) /\ trace[i].res = "err"
LoadFailed == \E i \in 1..Len(trace) : IsLoad(trace[i]) /\ trace[i].res = "err"
SetupLoadFailed == \E i \in 1..Len(trace) : trace[i].op = "setup_load" /\ trace[i].res = "err"
ConfigLoadFailed == \E i \in 1..Len(trace) : trace[i].op = "config_load" /\ trace[i].res = "err"

ConfigLoadsOk ==
    Cardinality({i \in 1..Len(trace) : trace[i].op = "config_load" /\ trace[i].res = "ok"})

\* the handler is past the point where it resolved the interface against the
\* configuration it loaded last
StartResolved ==
    /\ cmd = "setup_start"
    /\ setup # {}
    /\ ConfigLoadsOk = 2
    /\ pc # "start_interface"

StopResolved ==
    /\ cmd = "setup_stop"
    /\ setup # {}
    /\ ConfigLoadsOk = 1
    /\ pc # "stop_interface"

ResolvedInterface == get_audio_interface(TheConfig, TheSetup.setup.interface)
HasUnit == ResolvedInterface # {} /\ (CHOOSE i \in ResolvedInterface : TRUE).unit # {}

ShapeOrder == TheSetup.setup.shapes

(***************************************************************************)
(* C1..C10                                                                 *)
(***************************************************************************)
\* C1: in a START run whose resolved interface has a unit, a failure of the
\* connection to the service manager or of the start call ends the run with
\* that error, and no entry of shape_order has been or will be processed.
C1_StartUnitFailureAborts ==
    (cmd = "setup_start" /\ ManagerFailed) =>
        /\ pc = "returned"
        /\ result \in {"connection_failed", "unit_failed"}
        /\ ShapesProcessed = <<>>
        /\ trace[Len(trace)].res = "err"

C1_Witness ==
    /\ cmd = "setup_start"
    /\ pc = "returned"
    /\ trace # <<>>
    /\ trace[Len(trace)] = Event("start_unit", "jack@mixpre.service", "err")
    /\ Len(ShapeOrder) > 1
    /\ result = "unit_failed"

\* C2: in a START run whose descriptor names an interface that is not a key
\* of Config.interfaces, the run ends with "interface not found", no call
\* goes to the service manager and no entry of shape_order is processed.
C2_StartInterfaceNotFound ==
    (StartResolved /\ ResolvedInterface = {}) =>
        /\ pc = "returned"
        /\ result = "interface_not_found"
        /\ ManagerCalls = <<>>
        /\ ShapesProcessed = <<>>

C2_Witness ==
    /\ StartResolved
    /\ ResolvedInterface = {}
    /\ TheSetup.setup.interface = "mixpre"
    /\ Len(ShapeOrder) > 0
    /\ result = "interface_not_found"

C4_StopReverseThenInterface ==
    (cmd = "setup_stop" /\ setup # {}) =>
        /\ ShapesProcessed = SubSeq(Reverse(ShapeOrder), 1, idx)
        /\ \A i \in 1..Len(trace) :
            IsShapeStep(trace[i]) =>
                /\ trace[i].op = "shape_stop"
                /\ trace[i].res = ShapeOutcome(TheSetup, trace[i].arg)
                /\ \A j \in 1..i : ~IsManagerCall(trace[j])
        /\ ManagerCalls # <<>> => ShapesProcessed = Reverse(ShapeOrder)
        /\ (StopResolved /\ HasUnit /\ pc = "returned") =>
                /\ ManagerCalls # <<>>
                /\ ManagerCalls[1].op = "connect"
                /\ \/ ManagerCalls = <<Event("connect", "session", "err")>>
                   \/ /\ Len(ManagerCalls) = 2
                      /\ ManagerCalls[2].op = "stop_unit"
                      /\ ManagerCalls[2].arg = InterfaceUnit

C4_Witness ==
    /\ cmd = "setup_stop"
    /\ pc = "returned"
    /\ setup # {}
    /\ ShapeOrder = <<"a", "b", "a">>
    /\ ShapesProcessed = <<"a", "b", "a">>
    /\ get_shape(TheSetup, "b") = {}
    /\ get_shape(TheSetup, "a") # {}
    /\ trace[Len(trace)] = Event("stop_unit", "jack@mixpre.service", "ok")

\* C5: a START run that reaches the shape phase processes every entry of
\* shape_order exactly once in the listed order; an entry missing from the
\* shape map or without an image is only logged, and the run ends with
\* success.
C5_StartShapesInOrder ==
    (cmd = "setup_start" /\ setup # {}) =>
        /\ ShapesProcessed = SubSeq(ShapeOrder, 1, idx)
        /\ \A i \in 1..Len(trace) :
            IsShapeStep(trace[i]) =>
                /\ trace[i].op = "shape_start"
                /\ trace[i].res = ShapeOutcome(TheSetup, trace[i].arg)
        /\ (pc = "start_shapes" \/ ShapesProcessed # <<>>) => result \in {"none", "ok"}
        /\ (StartResolved /\ ResolvedInterface # {} /\ ~ManagerFailed /\ pc = "returned") =>
                /\ result = "ok"
                /\ ShapesProcessed = ShapeOrder

C5_Witness ==
    /\ cmd = "setup_start"
    /\ pc = "returned"
    /\ result = "ok"
    /\ ShapeOrder = <<"a", "b", "a">>
    /\ get_shape(TheSetup, "b") = {}
    /\ ShapeOutcome(TheSetup, "a") = "no_image"
    /\ ShapesProcessed = <<"a", "b", "a">>

\* C6: in a START run no entry of shape_order is processed before the
\* interface step is complete: the interface was found, and when it has a
\* unit, the connection and the start call for that unit have both returned
\* success before the first shape step.
C6_StartInterfaceBeforeShapes ==
    \A i \in 1..Len(trace) :
        trace[i].op = "shape_start" =>
            /\ ConfigLoadsOk = 2
            /\ ResolvedInterface # {}
            /\ HasUnit =>
                \E j \in 1..(i - 1) :
                    /\ trace[j] = Event("start_unit", InterfaceUnit, "ok")
                    /\ j > 1
                    /\ trace[j - 1] = Event("connect", "session", "ok")

C6_Witness ==
    /\ cmd = "setup_start"
    /\ setup # {}
    /\ ShapesProcessed # <<>>
    /\ HasUnit

C8_StopNothingToStop ==
    (StopResolved /\ ~HasUnit) =>
        /\ pc = "returned"
        /\ result = "ok"
        /\ ManagerCalls = <<>>

C8_Witness ==
    /\ StopResolved
    /\ ResolvedInterface = {}
    /\ TheSetup.setup.interface = "mixpre"
    /\ result = "ok"

C8_WitnessNoUnit ==
    /\ StopResolved
    /\ ResolvedInterface # {}
    /\ ~HasUnit
    /\ result = "ok"

\* the second of two STOP runs in a row, the first of which ended with
\* success, has loaded its descriptor and its configuration and has returned
SecondStopReturned ==
    /\ prev.cmd = "setup_stop"
    /\ prev.result = "ok"
    /\ cmd = "setup_stop"
    /\ pc = "returned"
    /\ setup # {}
    /\ ConfigLoadsOk = 1

C10_OverrideLoadsOnlyNamedPath ==
    \A r \in loaded :
        override.var # "not_present" =>
            /\ r.probed = <<>>
            /\ r.read = <<CustomPath>>
            /\ r.ok <=> ConfigLoadFromPath(files[CustomPath]).ok
            /\ r.value = ConfigLoadFromPath(files[CustomPath]).value

(***************************************************************************)
(* C11..C20                                                                *)
(***************************************************************************)
\* C11: when OBAKE_CONFIG_FILE is unset, Config::load probes the user path
\* before the system path and loads the first one that exists: the system
\* file is read only when the user file does not exist, and the result is
\* what load_from_path makes of the file read.
C11_UserPathBeforeSystemPath ==
    \A r \in loaded :
        override.var = "not_present" =>
            /\ r.probed # <<>>
            /\ r.probed[1] = UserPath
            /\ PathExists(files[UserPath]) =>
                    /\ r.probed = <<UserPath>>
                    /\ r.read = <<UserPath>>
            /\ (~PathExists(files[UserPath]) /\ PathExists(files[SystemPath])) =>
                    /\ r.probed = <<UserPath, SystemPath>>
                    /\ r.read = <<SystemPath>>
            /\ r.read = <<SystemPath>> => ~PathExists(files[UserPath])
            /\ \A i \in 1..Len(r.read) :
                    /\ r.ok = ConfigLoadFromPath(files[r.read[i]]).ok
                    /\ r.value = ConfigLoadFromPath(files[r.read[i]]).value

C11_Witness ==
    \E r \in loaded :
        /\ override.var = "not_present"
        /\ ~PathExists(files[UserPath])
        /\ r.read = <<SystemPath>>
        /\ r.ok
        /\ ConfigLoadFromPath(files[CustomPath]).ok

C11_WitnessUserFirst ==
    \E r \in loaded :
        /\ override.var = "not_present"
        /\ r.read = <<UserPath>>
        /\ r.ok
        /\ ConfigLoadFromPath(files[SystemPath]).ok
        /\ r.value # ConfigLoadFromPath(files[SystemPath]).value

\* C12: when OBAKE_CONFIG_FILE is unset and neither the user path nor the
\* system path exists, Config::load returns the "not found" error, its
\* message lists both paths, every listed path was probed, nothing was read
\* and no Config is returned.
C12_NotFoundListsBothPaths ==
    \A r \in loaded :
        (/\ override.var = "not_present"
         /\ ~PathExists(files[UserPath])
         /\ ~PathExists(files[SystemPath])) =>
            /\ ~r.ok
            /\ r.value = {}
            /\ r.error = "not_found"
            /\ r.listed = <<UserPath, SystemPath>>
            /\ r.probed = r.listed
            /\ r.read = <<>>

C12_Witness ==
    \E r \in loaded :
        /\ override.var = "not_present"
        /\ ~PathExists(files[UserPath])
        /\ ~PathExists(files[SystemPath])
        /\ ConfigLoadFromPath(files[CustomPath]).ok
        /\ r.error = "not_found"

\* C13: a START run whose resolved interface has no unit issues no call to
\* the service manager, goes on to the shape phase and ends with success
\* after processing every entry of shape_order.
C13_StartWithoutUnit ==
    (StartResolved /\ ResolvedInterface # {} /\ ~HasUnit) =>
        /\ ManagerCalls = <<>>
        /\ pc \in {"start_shapes", "returned"}
        /\ result = IF pc = "returned" THEN "ok" ELSE "none"
        /\ pc = "returned" => ShapesProcessed = ShapeOrder

C13_Witness ==
    /\ StartResolved
    /\ ResolvedInterface # {}
    /\ ~HasUnit
    /\ pc = "returned"
    /\ result = "ok"
    /\ Len(ShapeOrder) > 0

\* C14: no retry: a run issues at most one unit operation, a START run only
\* start_unit and a STOP run only stop_unit, and a call that failed is the
\* last call of its run.
C14_NoRetry ==
    /\ Len(UnitCalls) <= 1
    /\ \A i \in 1..Len(UnitCalls) :
        UnitCalls[i].op = IF cmd = "setup_start" THEN "start_unit" ELSE "stop_unit"
    /\ \A i \in 1..Len(trace) : trace[i].res = "err" => i = Len(trace)
    /\ cmd = "none" => trace = <<>>

C14_Witness ==
    /\ cmd = "setup_start"
    /\ pc = "returned"
    /\ Len(UnitCalls) = 1
    /\ UnitCalls[1].res = "err"
    /\ Len(ManagerCalls) = 2

C14_WitnessStop ==
    /\ cmd = "setup_stop"
    /\ pc = "returned"
    /\ UnitCalls = <<Event("stop_unit", "jack@mixpre.service", "ok")>>

\* C16: within one run the Config and the SetupDescriptor are each parsed
\* once and then never change: once the handler holds a parsed value, every
\* later step of the same run finds that same value, whatever happens to the
\* files meanwhile.
C16_ParsedOnceAndImmutable ==
    [][(cmd # "none" /\ cmd' = cmd) =>
            /\ config # {} => config' = config
            /\ setup # {} => setup' = setup]_vars

\* C17: load_from_path is atomic, for Config and for SetupConfig: it returns
\* Ok exactly when the file is a document that holds every required table
\* and key, and then every field of the value comes from the file; for a
\* file that is missing, malformed or lacks a required section it returns an
\* error and no value at all.
C17_LoadIsAtomic ==
    \A r \in loaded : \A p \in DOMAIN files :
        LET f == files[p]
            complete ==
                /\ f.kind = "doc"
                /\ p = ConfigPath =>
                    /\ f.audio # {}
                    /\ f.data # {}
                    /\ \A a \in f.audio : \A n \in DOMAIN a.interfaces :
                            a.interfaces[n].type # {}
                /\ p = SetupPath =>
                    /\ f.setup # {}
                    /\ f.shapes # {}
        IN  /\ r.ok <=> complete
            /\ ~r.ok => r.value = {} /\ r.error \in {"parse", "missing_field"}
            /\ r.ok => Cardinality(r.value) = 1
            /\ (r.ok /\ p = ConfigPath) =>
                \A c \in r.value :
                    /\ {c.data} = f.data
                    /\ {c.audio.default_interface} = {a.default_interface : a \in f.audio}
                    /\ \A a \in f.audio :
                        /\ DOMAIN c.audio.interfaces = DOMAIN a.interfaces
                        /\ \A n \in DOMAIN a.interfaces :
                            {c.audio.interfaces[n].interface_type} = a.interfaces[n].type
            /\ (r.ok /\ p = SetupPath) =>
                \A c \in r.value :
                    /\ {c.setup} = f.setup
                    /\ {c.shapes} = f.shapes

C17_Witness ==
    \E r \in loaded :
        /\ ~r.ok
        /\ SetupPath \in DOMAIN files
        /\ files[SetupPath].kind = "doc"
        /\ files[SetupPath].setup # {}
        /\ files[SetupPath].shapes = {}

C17_WitnessConfig ==
    \E r \in loaded :
        /\ ~r.ok
        /\ ConfigPath \in DOMAIN files
        /\ files[ConfigPath].kind = "doc"
        /\ files[ConfigPath].audio # {}
        /\ files[ConfigPath].data = {}

\* C18: for every configuration file that satisfies the schema, the loaded
\* Config gives back through its fields and accessors exactly what the file
\* holds: default interface, each interface's type and unit, the three
\* directories; an interface written without a unit has no unit.
C18_RoundTrip ==
    \A r \in loaded : \A c \in r.value :
        LET f == files[r.read[1]]
            a == CHOOSE x \in f.audio : TRUE
            d == CHOOSE x \in f.data : TRUE
        IN  /\ c.audio.default_interface = a.default_interface
            /\ list_audio_interfaces(c) = DOMAIN a.interfaces
            /\ \A n \in InterfaceNames \cup InterfaceRefs :
                IF n \in DOMAIN a.interfaces
                THEN /\ Cardinality(get_audio_interface(c, n)) = 1
                     /\ \A i \in get_audio_interface(c, n) :
                            /\ {i.interface_type} = a.interfaces[n].type
                            /\ i.unit = a.interfaces[n].unit
                ELSE get_audio_interface(c, n) = {}
            /\ get_default_audio_interface(c) = get_audio_interface(c, a.default_interface)
            /\ get_images_dir(c) = d.images_dir
            /\ get_setups_dir(c) = d.setups_dir
            /\ get_data_dir(c) = d.data_dir

C18_Witness ==
    \E r \in loaded : \E c \in r.value :
        /\ "mixpre" \in list_audio_interfaces(c)
        /\ \A i \in get_audio_interface(c, "mixpre") : i.unit = {}
        /\ r.read = <<UserPath>>

\* what a run returns, read off what its external calls returned and the
\* values it loaded, and off nothing else
ErrorOf(op) ==
    CASE op = "config_load" -> "config_error"
      [] op = "read_dir" -> "read_dir_error"
      [] op = "setup_load" -> "setup_error"
      [] op = "connect" -> "connection_failed"
      [] op \in {"start_unit", "stop_unit"} -> "unit_failed"

ExpectedResult ==
    LET failed == {i \in 1..Len(trace) : trace[i].res = "err"}
    IN  IF failed # {}
        THEN ErrorOf(trace[CHOOSE i \in failed : \A j \in failed : i <= j].op)
        ELSE IF cmd = "setup_start" /\ ResolvedInterface = {}
        THEN "interface_not_found"
        ELSE "ok"

ExpectedManagerOps ==
    LET reached ==
            /\ setup # {}
            /\ ConfigLoadsOk = (IF cmd = "setup_start" THEN 2 ELSE 1)
            /\ HasUnit
        refused == \E i \in 1..Len(trace) : trace[i] = Event("connect", "session", "err")
        connect == [op |-> "connect", arg |-> "session"]
        unit == [op |-> IF cmd = "setup_start" THEN "start_unit" ELSE "stop_unit",
                 arg |-> InterfaceUnit]
    IN  IF ~reached THEN <<>>
        ELSE IF refused THEN <<connect>>
        ELSE <<connect, unit>>

\* C19: every invocation is stateless: a run starts from the same state
\* whatever ran before it, and the calls it issues to the service manager
\* (the connection, then the unit call) and the result it
\* returns are determined by its command, the configuration and setup it
\* loaded and what its external calls returned, so two runs given the same
\* of these agree.
C19_Stateless ==
    /\ (cmd # "none" /\ trace = <<>>) =>
            /\ pc \in {"start_load_config", "stop_load_setup"}
            /\ config = {}
            /\ setup = {}
            /\ idx = 0
            /\ result = "none"
    /\ pc = "returned" =>
            /\ result = ExpectedResult
            /\ [i \in 1..Len(ManagerCalls) |->
                    [op |-> ManagerCalls[i].op, arg |-> ManagerCalls[i].arg]]
                    = ExpectedManagerOps

C19_Witness ==
    /\ runs = 2
    /\ prev.cmd = "setup_stop"
    /\ prev.result = "ok"
    /\ cmd = "setup_stop"
    /\ pc = "returned"
    /\ UnitCalls = <<Event("stop_unit", "jack@mixpre.service", "ok")>>

C19_WitnessStart ==
    /\ runs = 2
    /\ prev.cmd = "setup_start"
    /\ prev.result = "unit_failed"
    /\ cmd = "setup_start"
    /\ pc = "returned"
    /\ result = "ok"
    /\ UnitCalls # <<>>

\* C20: the process ends with a non-zero status exactly when the command it
\* ran returned an error, and with status zero exactly when it returned Ok.
C20_ExitStatus ==
    [][(pc = "returned" /\ pc' # "returned") =>
            /\ prev'.cmd = cmd
            /\ prev'.result = result
            /\ result # "none"
            /\ prev'.exit = 0 <=> result = "ok"
            /\ prev'.exit # 0 <=> result # "ok"]_vars

C20_Witness ==
    /\ prev.cmd = "setup_start"
    /\ prev.result = "interface_not_found"
    /\ prev.exit = 1

C20_WitnessOk ==
    /\ prev.cmd = "setup_stop"
    /\ prev.result = "ok"
    /\ prev.exit = 0

\* C15: the steps of a run are strictly sequential: at most one external
\* call (file read or service-manager call) is outstanding at any time, it
\* is the call of the step the handler is at, and while it is outstanding
\* the handler takes no step: the next thing to happen is the return of that
\* call.
C15_OneCallAtATime ==
    /\ [](/\ Len(pending) <= 1
          /\ pending # <<>> => (AtCall /\ pending = <<CallAt(pc)>>)
          /\ pc \in {"idle", "returned"} => pending = <<>>)
    /\ [][pending # <<>> =>
            /\ pending' = <<>>
            /\ Len(trace') = Len(trace) + 1
            /\ trace'[Len(trace')].op = pending[1]
            /\ SubSeq(trace', 1, Len(trace)) = trace]_vars
    /\ [][Len(trace') > Len(trace) =>
            \/ pending # <<>>
            \/ \A i \in (Len(trace) + 1)..Len(trace') :
                    trace'[i].op \in {"shape_start", "shape_env", "shape_stop"}]_vars

C15_Witness ==
    /\ cmd = "setup_start"
    /\ pending = <<"start_unit">>
    /\ Len(trace) = 5

(***************************************************************************)
(* C21..C25                                                                *)
(***************************************************************************)
\* C21: when OBAKE_CONFIG_FILE is unset and the user file exists but is not
\* TOML or lacks a required field, Config::load returns the parse error of
\* that file, which is not the "not found" error, lists no searched paths,
\* and never probes or reads the system file, whatever that file holds.
C21_NoFallbackFromBrokenUserFile ==
    \A r \in loaded :
        (/\ override.var = "not_present"
         /\ PathExists(files[UserPath])
         /\ ~ConfigLoadFromPath(files[UserPath]).ok) =>
            /\ ~r.ok
            /\ r.value = {}
            /\ r.error \in {"parse", "missing_field"}
            /\ r.error = ConfigLoadFromPath(files[UserPath]).error
            /\ r.error # "not_found"
            /\ r.listed = <<>>
            /\ r.read = <<UserPath>>
            /\ r.probed = <<UserPath>>

\* the user file is not TOML and the system file is a valid configuration
C21_Witness ==
    \E r \in loaded :
        /\ override.var = "not_present"
        /\ files[UserPath].kind = "garbage"
        /\ ConfigLoadFromPath(files[SystemPath]).ok
        /\ r.error = "parse"

\* the user file is TOML that lacks a required field
C21_WitnessMissingField ==
    \E r \in loaded :
        /\ override.var = "not_present"
        /\ files[UserPath].kind = "doc"
        /\ ~ConfigDeserializable(files[UserPath])
        /\ ConfigLoadFromPath(files[SystemPath]).ok
        /\ r.error = "missing_field"

\* the positions of the trace at which a connection was opened
Connects == {i \in 1..Len(trace) : trace[i].op = "connect"}

\* C22: a START or STOP run opens at most one connection to the service
\* manager, it is the session connection, every unit call of the run comes
\* after that one connection succeeded, and a run that got as far as its
\* unit call or returned with a resolved interface that has a unit opened
\* exactly one.
C22_OneConnectionPerRun ==
    /\ Cardinality(Connects) <= 1
    /\ \A i \in Connects : trace[i].arg = "session"
    /\ \A j \in 1..Len(trace) :
            IsUnitCall(trace[j]) =>
                \E i \in Connects : i < j /\ trace[i].res = "ok"
    /\ ((StartResolved \/ StopResolved) /\ HasUnit /\ pc = "returned") =>
            Cardinality(Connects) = 1
    /\ ((StartResolved \/ StopResolved) /\ ~HasUnit) => Connects = {}

C22_Witness ==
    /\ cmd = "setup_start"
    /\ pc = "returned"
    /\ result = "ok"
    /\ Cardinality(Connects) = 1
    /\ Len(UnitCalls) = 1
    /\ Len(ShapeOrder) = 2

C22_WitnessStop ==
    /\ cmd = "setup_stop"
    /\ pc = "returned"
    /\ Cardinality(Connects) = 1
    /\ Len(UnitCalls) = 1
    /\ UnitCalls[1].res = "err"

\* the external call `op` was made in this run and succeeded
Succeeded(op) == \E i \in 1..Len(trace) : trace[i].op = op /\ trace[i].res = "ok"

\* C23: a START run returns success exactly when every Config::load of the
\* run succeeded, the setups directory could be listed, the setup descriptor
\* loaded, the configuration has the interface the descriptor names, and
\* that interface has no unit or the connection and the unit start both
\* succeeded. Nothing in the condition depends on shape_order or on the
\* shape map.
C23_StartSucceedsExactlyWhen ==
    (cmd = "setup_start" /\ pc = "returned") =>
        (result = "ok" <=>
            /\ ConfigLoadsOk = 2
            /\ Succeeded("read_dir")
            /\ Succeeded("setup_load")
            /\ ResolvedInterface # {}
            /\ HasUnit => (Succeeded("connect") /\ Succeeded("start_unit")))

\* a successful run one of whose shapes is not in the shape map and another
\* of which names no image
C23_Witness ==
    /\ cmd = "setup_start"
    /\ pc = "returned"
    /\ result = "ok"
    /\ HasUnit
    /\ \E i, j \in 1..Len(trace) :
            /\ trace[i].op = "shape_start" /\ trace[i].res = "not_found"
            /\ trace[j].op = "shape_start" /\ trace[j].res = "no_image"

\* a failed run whose only failed condition is the unit start
C23_WitnessFailed ==
    /\ cmd = "setup_start"
    /\ pc = "returned"
    /\ result # "ok"
    /\ ConfigLoadsOk = 2
    /\ Succeeded("connect")
    /\ ~Succeeded("start_unit")

\* C24: in a START run the listing of the setups directory the
\* configuration names is the second call, right after the first
\* Config::load succeeded, and every later call or shape step comes after a
\* successful listing. When the listing fails the run returns that error at
\* once: no setup descriptor is loaded, no connection or unit call is made
\* and no shape is processed.
C24_StartReadDirFailure ==
    cmd = "setup_start" =>
        /\ \A i \in 1..Len(trace) :
                trace[i].op = "read_dir" =>
                    /\ i = 2
                    /\ trace[1] = Event("config_load", "config.toml", "ok")
                    /\ trace[i].arg = get_setups_dir(TheConfig)
        /\ \A j \in 3..Len(trace) :
                trace[2] = Event("read_dir", get_setups_dir(TheConfig), "ok")
        /\ (Len(trace) >= 2 /\ trace[2].res = "err") =>
                /\ Len(trace) = 2
                /\ pc = "returned"
                /\ result = "read_dir_error"
                /\ setup = {}
                /\ ManagerCalls = <<>>
                /\ ShapesProcessed = <<>>
                /\ ~Succeeded("setup_load") /\ ~SetupLoadFailed

\* the listing failed under a configuration whose interface has a unit
C24_Witness ==
    /\ cmd = "setup_start"
    /\ pc = "returned"
    /\ Len(trace) = 2
    /\ trace[2].op = "read_dir"
    /\ trace[2].res = "err"
    /\ get_audio_interface(TheConfig, "mixpre") # {}
    /\ \E a \in get_audio_interface(TheConfig, "mixpre") : a.unit # {}

\* the place of a handler position in the order the code runs through them
Rank(p) ==
    CASE p \in {"start_load_config", "stop_load_setup"} -> 1
      [] p \in {"start_read_dir", "stop_shapes"} -> 2
      [] p \in {"start_load_setup", "stop_interface"} -> 3
      [] p \in {"start_reload_config", "stop_get_manager"} -> 4
      [] p \in {"start_interface", "stop_unit"} -> 5
      [] p = "start_get_manager" -> 6
      [] p = "start_unit" -> 7
      [] p = "start_shapes" -> 8
      [] p = "returned" -> 9
      [] OTHER -> 0

\* how far the run has got: position first, then loop index, then whether
\* the call of the position has been issued
Progress == Rank(pc) * (2 * MaxShapes + 2) + 2 * idx + Len(pending)

TimesCalled(op) == Cardinality({i \in 1..Len(trace) : trace[i].op = op})

\* C25: provided the handler keeps taking its steps and every call it issued
\* returns, every START and STOP run reaches its return, with success or
\* with an error. On the way every step takes the run further, so no step
\* is repeated; each call is made at most as often as it is written in
\* the handler; and the entries of shape_order visited so far are the first
\* idx entries in the order of the run, each visited once.
C25_RunTerminates ==
    /\ (cmd # "none") ~> (pc = "returned" /\ result # "none")
    /\ [][(cmd # "none" /\ cmd' = cmd) => Progress' > Progress]_vars
    /\ [](cmd # "none" =>
            /\ TimesCalled("config_load") <= (IF cmd = "setup_start" THEN 2 ELSE 1)
            /\ \A op \in {"read_dir", "setup_load", "connect", "start_unit", "stop_unit"} :
                    TimesCalled(op) <= 1
            /\ Len(ShapesProcessed) = idx
            /\ setup # {} =>
                    /\ idx <= Len(ShapeOrder)
                    /\ ShapesProcessed =
                            SubSeq(IF cmd = "setup_start" THEN ShapeOrder ELSE Reverse(ShapeOrder),
                                   1, idx))

\* a run that went through a shape_order of two equal entries and returned
C25_Witness ==
    /\ cmd = "setup_start"
    /\ pc = "returned"
    /\ result = "ok"
    /\ ShapeOrder = <<"a", "a">>
    /\ ShapesProcessed = <<"a", "a">>
    /\ TimesCalled("start_unit") = 1

C25_WitnessStop ==
    /\ cmd = "setup_stop"
    /\ pc = "returned"
    /\ setup # {}
    /\ result # "ok"
    /\ Len(ShapeOrder) = MaxShapes
    /\ idx = MaxShapes

====
